---------------------------- MODULE Spec2Model ----------------------------
(***************************************************************************)
(* Exercise API (matheo97/exerciseAPI): the scoring and ranking engine of  *)
(* get-ranking/ranking.go and the create / update handlers with their      *)
(* overlap guard (createExercise/create.go, update-exercise).              *)
(*                                                                         *)
(* Conventions                                                             *)
(*  - time.Time values are integers that keep the chronological order:     *)
(*    ZeroTime is the zero time.Time, LastExerciseDone is the 1990         *)
(*    baseline of totalPointsByUser, every other value n is the instant n  *)
(*    seconds after midnight (UTC) of the day the records are logged on.   *)
(*    go-sqlite3 binds and stores time.Time as text in one fixed layout;   *)
(*    for whole seconds in one zone the text order is the chronological    *)
(*    order, which is what BETWEEN compares.                               *)
(*  - Points is a float64, as in the source: every product and every sum   *)
(*    is rounded as IEEE-754 binary64 arithmetic rounds it (section        *)
(*    float64 below), so that 160 * 0.9, a sum of category scores taken in *)
(*    another order, or two scores that are equal as real numbers, come    *)
(*    out as they do in the program.                                       *)
(*  - net/http serves every request on its own goroutine and every         *)
(*    database access of a handler is a round trip of its own, with no     *)
(*    transaction around them: a handler is one action per round trip, and *)
(*    the record of a request holds the position it has reached.           *)
(***************************************************************************)
EXTENDS Integers, Sequences, FiniteSets, TLC

VARIABLES
    exerciseType,   \* SpecScore: the category handed to calculatePointsByExerciseType
    userExercises,  \* SpecScore: the rows handed to it, most recent first
    pointsByType,   \* SpecScore: the *PointsByType it returned: <<p>>, or <<>>
    rankTable,      \* SpecRank: rows the query of getExercisesByType returns per user and category
    rankResponse,   \* SpecRank: the ranking request being served, its locals and its Response
    exercises,      \* Spec / SpecConc: the exercises table, row i has ID i
    inflight        \* Spec / SpecConc: the create / update request of every client

vars == <<exerciseType, userExercises, pointsByType, rankTable, rankResponse,
          exercises, inflight>>

None == "none"

-----------------------------------------------------------------------------
(* Time                                                                    *)

ZeroTime == 0

LastExerciseDone == 1

-----------------------------------------------------------------------------
(* Exercise categories                                                     *)

RunningType == "RUNNING"

SwimmingType == "SWIMMING"

StrenghtTrainingType == "STRENGTH_TRAINING"

CircuitTrainingType == "CIRCUIT_TRAINING"

exerciseTypes == {RunningType, SwimmingType, StrenghtTrainingType, CircuitTrainingType}

\* a Go map lookup yields the zero value for a missing key
getMultiplicationFactor(t) ==
    CASE t = RunningType -> 2
      [] t = SwimmingType -> 3
      [] t = StrenghtTrainingType -> 3
      [] t = CircuitTrainingType -> 4
      [] OTHER -> 0

-----------------------------------------------------------------------------
(* Integer helpers                                                         *)

\* Go's integer division truncates toward zero
GoDiv(a, b) == IF a >= 0 THEN a \div b ELSE -((-a) \div b)

\* the mathematical ceiling of a / b for b > 0
CeilDiv(a, b) == -((-a) \div b)

Min(a, b) == IF a <= b THEN a ELSE b

Take(s, n) == SubSeq(s, 1, Min(n, Len(s)))

-----------------------------------------------------------------------------
(* float64.  A float64 value is [neg, mant, exp]: the number                *)
(* (-1)^neg * mant * 2^exp, mant a natural number below 2^53 written in     *)
(* limbs (base 2^15, least significant first, no leading zero limb), and    *)
(* canonical: mant is odd, or the value is zero (<<>>, exp 0, neg FALSE).   *)
(* Equal numbers have equal records.  The operations round to nearest,      *)
(* ties to even, as the IEEE-754 arithmetic of Go's float64 does; the       *)
(* values of the model stay far from overflow and from subnormals.          *)

MantBits == 53

LimbBits == 15

BigBase == 2^LimbBits

RECURSIVE BigNorm(_)
BigNorm(a) ==
    IF Len(a) > 0 /\ a[Len(a)] = 0 THEN BigNorm(SubSeq(a, 1, Len(a) - 1)) ELSE a

RECURSIVE BigFromNat(_)
BigFromNat(n) == IF n = 0 THEN <<>> ELSE <<n % BigBase>> \o BigFromNat(n \div BigBase)

RECURSIVE BigCmpFrom(_, _, _)
BigCmpFrom(a, b, i) ==
    IF i = 0 THEN 0
    ELSE IF a[i] < b[i] THEN -1
    ELSE IF a[i] > b[i] THEN 1
    ELSE BigCmpFrom(a, b, i - 1)

\* -1, 0 or 1 as a < b, a = b or a > b
BigCmp(a, b) ==
    IF Len(a) < Len(b) THEN -1
    ELSE IF Len(a) > Len(b) THEN 1
    ELSE BigCmpFrom(a, b, Len(a))

Limb(a, i) == IF i <= Len(a) THEN a[i] ELSE 0

RECURSIVE BigAddFrom(_, _, _, _)
BigAddFrom(a, b, i, carry) ==
    IF i > Len(a) /\ i > Len(b)
    THEN IF carry = 0 THEN <<>> ELSE <<carry>>
    ELSE LET t == Limb(a, i) + Limb(b, i) + carry
         IN  <<t % BigBase>> \o BigAddFrom(a, b, i + 1, t \div BigBase)

BigAdd(a, b) == BigAddFrom(a, b, 1, 0)

RECURSIVE BigSubFrom(_, _, _, _)
BigSubFrom(a, b, i, borrow) ==
    IF i > Len(a) THEN <<>>
    ELSE LET t == a[i] - Limb(b, i) - borrow
         IN  IF t < 0 THEN <<t + BigBase>> \o BigSubFrom(a, b, i + 1, 1)
             ELSE <<t>> \o BigSubFrom(a, b, i + 1, 0)

\* a - b for a >= b
BigSub(a, b) == BigNorm(BigSubFrom(a, b, 1, 0))

RECURSIVE BigMulSmallFrom(_, _, _, _)
BigMulSmallFrom(a, m, i, carry) ==
    IF i > Len(a)
    THEN IF carry = 0 THEN <<>> ELSE <<carry>>
    ELSE LET t == a[i] * m + carry
         IN  <<t % BigBase>> \o BigMulSmallFrom(a, m, i + 1, t \div BigBase)

\* a * m for 0 <= m < 2^15
BigMulSmall(a, m) == IF m = 0 THEN <<>> ELSE BigMulSmallFrom(a, m, 1, 0)

Zeros(n) == [i \in 1..n |-> 0]

RECURSIVE BigMulFrom(_, _, _)
BigMulFrom(a, b, i) ==
    IF i > Len(b) THEN <<>>
    ELSE BigAdd(BigNorm(Zeros(i - 1) \o BigMulSmall(a, b[i])), BigMulFrom(a, b, i + 1))

BigMul(a, b) == BigMulFrom(a, b, 1)

RECURSIVE BigDivSmallFrom(_, _, _, _)
BigDivSmallFrom(a, d, i, r) ==
    IF i = 0 THEN [q |-> <<>>, r |-> r]
    ELSE LET t == r * BigBase + a[i]
             rest == BigDivSmallFrom(a, d, i - 1, t % d)
         IN  [q |-> rest.q \o <<t \div d>>, r |-> rest.r]

\* quotient and remainder of a by d, 0 < d <= 2^15
BigDivSmall(a, d) ==
    LET res == BigDivSmallFrom(a, d, Len(a), 0)
    IN  [q |-> BigNorm(res.q), r |-> res.r]

\* a * 2^k
BigShl(a, k) ==
    IF a = <<>> THEN <<>>
    ELSE Zeros(k \div LimbBits) \o BigMulSmall(a, 2^(k % LimbBits))

\* floor(a / 2^k), and whether a bit was shifted out
BigShr(a, k) ==
    LET n == k \div LimbBits
        kept == IF n >= Len(a) THEN <<>> ELSE SubSeq(a, n + 1, Len(a))
        res == BigDivSmall(kept, 2^(k % LimbBits))
    IN  [q |-> res.q,
         sticky |-> res.r # 0 \/ \E i \in 1..Min(n, Len(a)) : a[i] # 0]

RECURSIVE BitLen(_)
BitLen(n) == IF n = 0 THEN 0 ELSE 1 + BitLen(n \div 2)

BigBitLen(a) == IF a = <<>> THEN 0 ELSE LimbBits * (Len(a) - 1) + BitLen(a[Len(a)])

BigOdd(a) == a # <<>> /\ a[1] % 2 = 1

\* the canonical record of (-1)^neg * m * 2^e
RECURSIVE Canon(_, _, _)
Canon(neg, m, e) ==
    IF m = <<>> THEN [neg |-> FALSE, mant |-> <<>>, exp |-> 0]
    ELSE IF m[1] = 0 THEN Canon(neg, SubSeq(m, 2, Len(m)), e + LimbBits)
    ELSE IF m[1] % 2 = 0 THEN Canon(neg, BigDivSmall(m, 2).q, e + 1)
    ELSE [neg |-> neg, mant |-> m, exp |-> e]

\* the float64 nearest to (-1)^neg * (m + f) * 2^e, where 0 < f < 1 if sticky
\* and f = 0 if not (ties to even); with sticky, m has more than MantBits + 1 bits
RoundTo(neg, m, e, sticky) ==
    LET len == BigBitLen(m) IN
    IF len <= MantBits THEN Canon(neg, m, e)
    ELSE LET s == len - MantBits
             sh == BigShr(m, s - 1)
             q == BigDivSmall(sh.q, 2).q
             up == BigOdd(sh.q) /\ (sh.sticky \/ sticky \/ BigOdd(q))
         IN  Canon(neg, IF up THEN BigAdd(q, <<1>>) ELSE q, e + s)

FZero == [neg |-> FALSE, mant |-> <<>>, exp |-> 0]

Abs(n) == IF n < 0 THEN -n ELSE n

\* float64(n) for an integer n of the model (exact below 2^53)
FFromInt(n) == Canon(n < 0, BigFromNat(Abs(n)), 0)

\* the float64 quotient n / d of two float64 values that hold the integers
\* n and d, 0 < d <= 2^15: the float64 nearest to the rational n / d
FQuot(n, d) ==
    LET res == BigDivSmall(BigShl(BigFromNat(Abs(n)), 5 * LimbBits), d)
    IN  RoundTo(n < 0, res.q, -(5 * LimbBits), res.r # 0)

FMul(x, y) == RoundTo(x.neg # y.neg, BigMul(x.mant, y.mant), x.exp + y.exp, FALSE)

FAdd(x, y) ==
    LET e == Min(x.exp, y.exp)
        a == BigShl(x.mant, x.exp - e)
        b == BigShl(y.mant, y.exp - e)
    IN  IF x.neg = y.neg THEN RoundTo(x.neg, BigAdd(a, b), e, FALSE)
        ELSE IF BigCmp(a, b) >= 0 THEN RoundTo(x.neg, BigSub(a, b), e, FALSE)
        ELSE RoundTo(y.neg, BigSub(b, a), e, FALSE)

\* x < y
FLess(x, y) ==
    LET e == Min(x.exp, y.exp)
        c == BigCmp(BigShl(x.mant, x.exp - e), BigShl(y.mant, y.exp - e))
    IN  IF x.neg /\ ~y.neg THEN TRUE
        ELSE IF ~x.neg /\ y.neg THEN FALSE
        ELSE IF x.neg THEN c > 0
        ELSE c < 0


-----------------------------------------------------------------------------
(* TypeScoreCalculator                                                     *)

Row(d, c, f) == [Duration |-> d, Calories |-> c, FinishTime |-> f]

basePointsOf(exercise, multiplicationFactor) ==
    (GoDiv(exercise.Duration + 59, 60) + exercise.Calories) * multiplicationFactor

\* the loop of calculatePointsByExerciseType from its i-th row on.  percent
\* holds 100.0, 90.0, ... which are integers, exactly represented;
\* percent / 100.0 is the rounded quotient, the product and the sum round again
RECURSIVE PointsLoop(_, _, _, _, _)
PointsLoop(rows, i, percent, multiplicationFactor, points) ==
    IF i > Len(rows) THEN points
    ELSE LET basePoints == basePointsOf(rows[i], multiplicationFactor) IN
         IF percent <= 0 THEN points
         ELSE PointsLoop(rows, i + 1, percent - 10, multiplicationFactor,
                         FAdd(points, FMul(FFromInt(basePoints), FQuot(percent, 100))))

\* the same loop without its break
RECURSIVE PointsLoopNoBreak(_, _, _, _, _)
PointsLoopNoBreak(rows, i, percent, multiplicationFactor, points) ==
    IF i > Len(rows) THEN points
    ELSE LET basePoints == basePointsOf(rows[i], multiplicationFactor) IN
         PointsLoopNoBreak(rows, i + 1, percent - 10, multiplicationFactor,
                           FAdd(points, FMul(FFromInt(basePoints), FQuot(percent, 100))))

calculatePointsNoBreak(userID, type, rows) ==
    [UserID |-> userID,
     ExerciseType |-> type,
     Points |-> PointsLoopNoBreak(rows, 1, 100, getMultiplicationFactor(type), FZero),
     LastExerciseDate |-> IF Len(rows) > 0 THEN rows[1].FinishTime ELSE ZeroTime]

calculatePointsByExerciseType(userID, type, rows) ==
    [UserID |-> userID,
     ExerciseType |-> type,
     Points |-> PointsLoop(rows, 1, 100, getMultiplicationFactor(type), FZero),
     LastExerciseDate |-> IF Len(rows) > 0 THEN rows[1].FinishTime ELSE ZeroTime]

-----------------------------------------------------------------------------
(* UserScoreAggregator                                                     *)

\* totalPointsByUser: the loop over pointsByUser from its i-th entry on; the
\* float64 sum is taken in the order of the slice
RECURSIVE TotalLoop(_, _, _)
TotalLoop(pointsByUser, i, user) ==
    IF i > Len(pointsByUser) THEN user
    ELSE LET pointsPerType == pointsByUser[i]
             \* diff := LastExerciseDone.Sub(pointsPerType.LastExerciseDate); diff < 0
             newer == LastExerciseDone < pointsPerType.LastExerciseDate
         IN  TotalLoop(pointsByUser, i + 1,
                       [UserID |-> user.UserID,
                        Points |-> FAdd(user.Points, pointsPerType.Points),
                        LastExerciseDate |->
                            IF newer THEN pointsPerType.LastExerciseDate
                            ELSE user.LastExerciseDate])

totalPointsByUser(userID, pointsByUser) ==
    TotalLoop(pointsByUser, 1,
              [UserID |-> userID, Points |-> FZero, LastExerciseDate |-> ZeroTime])

\* the rows the query of getExercisesByType returns for one user and category
getExercisesByType(type, userID, table) == table[userID][type]

\* the loop of getTotalPointsByUser over the categories in the order `range
\* exerciseTypes` visits them, from the i-th on: pointsByUser as it is appended to
RECURSIVE PointsByUserFrom(_, _, _, _)
PointsByUserFrom(userID, order, table, i) ==
    IF i > Len(order) THEN <<>>
    ELSE <<calculatePointsByExerciseType(userID, order[i],
               getExercisesByType(order[i], userID, table))>>
         \o PointsByUserFrom(userID, order, table, i + 1)

getTotalPointsByUser(userID, order, table) ==
    totalPointsByUser(userID, PointsByUserFrom(userID, order, table, 1))

\* the orders a range over the four-entry map can take (unspecified by the language)
IterationOrders ==
    {<<a, b, c, d>> : a, b, c, d \in exerciseTypes} \cap
    {o \in Seq(exerciseTypes) : Len(o) = 4 /\ \A i, j \in 1..4 : i # j => o[i] # o[j]}

\* every list with one element of choices[i] at each position i >= from
RECURSIVE Lists(_, _)
Lists(choices, from) ==
    IF from > Len(choices) THEN {<<>>}
    ELSE LET rest == Lists(choices, from + 1)
         IN  {<<x>> \o r : x \in choices[from], r \in rest}

\* getTotalPoints on a table that no request changes meanwhile: what the loop
\* over users can return, over every iteration order
getTotalPoints(users, table) ==
    LET perUser == [i \in 1..Len(users) |->
                      {getTotalPointsByUser(users[i], o, table) : o \in IterationOrders}]
    IN  Lists(perUser, 1)

-----------------------------------------------------------------------------
(* RankingComparator                                                       *)

\* a comparator that breaks ties by the older activity first
LessOlderFirst(a, b) ==
    IF a.Points = b.Points
    THEN a.LastExerciseDate < b.LastExerciseDate
    ELSE FLess(b.Points, a.Points)

\* a comparator that ranks the lower score first
LessAscending(a, b) == FLess(a.Points, b.Points)

\* ByPoints.Less on two entries; two float64 values are == exactly when their
\* canonical records are equal
Less(a, b) ==
    IF a.Points = b.Points
    THEN a.LastExerciseDate > b.LastExerciseDate
    ELSE FLess(b.Points, a.Points)

SwapAt(p, j) == [p EXCEPT ![j] = p[j - 1], ![j - 1] = p[j]]

\* sort.Sort on a slice of at most 12 entries is insertionSort
RECURSIVE InsertInner(_, _)
InsertInner(p, j) ==
    IF j > 1 /\ Less(p[j], p[j - 1]) THEN InsertInner(SwapAt(p, j), j - 1) ELSE p

RECURSIVE InsertionSort(_, _)
InsertionSort(p, i) ==
    IF i > Len(p) THEN p ELSE InsertionSort(InsertInner(p, i), i + 1)

SortByPoints(p) == InsertionSort(p, 2)

-----------------------------------------------------------------------------
(* The exercises table and the overlap guard                               *)

ErrMissingUserID == "Missing userId"
ErrMissingDescription == "Missing description"
ErrInvalidDescription == "Invalid description not an alphanumeric string"
ErrMissingType == "Missing type"
ErrInvalidType == "Invalid type"
ErrMissingStartTime == "Missing startTime"
ErrMissingDuration == "Missing duration"
ErrMissingCalories == "Missing calories"
ErrExerciseOverlapping ==
    "The exercise that you intended to create overlaps with an existing one"
ErrMissingID == "Missing exercise id"
ErrUnwantedUserID == "Unwanted userId field received"
ErrUnwantedType == "Unwanted type field received"
ErrDatabaseError == "Internal database error"
ErrNoExerciseFound == "The exercise you tried to update does not exists"
\* errors of the standard library and of the driver
ErrDecode == "json: cannot decode the request body"
ErrParseInt == "strconv.ParseInt: invalid syntax"
ErrGetwd == "getwd: no such file or directory"
ErrOpen == "sql: cannot open the database"
ErrPrepare == "sql: cannot prepare the statement"
ErrExec == "sql: cannot execute the statement"
Nil == "nil"

validTypes == {RunningType, SwimmingType, StrenghtTrainingType, CircuitTrainingType}

\* the descriptions of the model that match ^[A-Za-z0-9\s]+$
AlphaNumericStrings == {"morning run"}

isAlphaNumericString(description) == description \in AlphaNumericStrings

\* date.Add(time.Second * time.Duration(duration))
addDurationToDate(date, duration) == date + duration

\* a comparison that leaves the two bounds out
BetweenExclusive(x, lo, hi) == lo < x /\ x < hi

\* x BETWEEN lo AND hi
Between(x, lo, hi) == lo <= x /\ x <= hi

\* SELECT COUNT(*) FROM exercises WHERE USER_ID=$1 AND START_TIME BETWEEN $2 AND $3
CountStartBetween(table, userID, startDate, finishDate) ==
    Cardinality({i \in 1..Len(table) :
        table[i].UserID = userID /\ Between(table[i].StartTime, startDate, finishDate)})

\* SELECT COUNT(*) FROM exercises WHERE USER_ID=$1 AND FINISH_TIME BETWEEN $2 AND $3
CountFinishBetween(table, userID, startDate, finishDate) ==
    Cardinality({i \in 1..Len(table) :
        table[i].UserID = userID /\ Between(table[i].FinishTime, startDate, finishDate)})

\* the decision of checkExerciseOverlapping from the two counts; a count whose
\* QueryRow(...).Scan failed was never written and is still 0
OverlapDecision(onStart, onFinish) ==
    IF onStart > 0 \/ onFinish > 0
    THEN [isOverlapping |-> TRUE, err |-> ErrExerciseOverlapping]
    ELSE [isOverlapping |-> FALSE, err |-> Nil]

\* The data access that fails while a request is served, if any:
\*   "getwd"        os.Getwd fails (the working directory is gone): every call
\*   "open"         sql.Open fails (the driver is not registered): every call
\*   "queryStart"   the COUNT query on START_TIME of the overlap guard fails
\*   "queryFinish"  the COUNT query on FINISH_TIME of the overlap guard fails
\*   "prepare"      database.Prepare of the INSERT / UPDATE fails
\*   "exec"         statement.Exec of the INSERT / UPDATE fails
NoFault == "none"

GuardFaults == {"getwd", "open", "queryStart", "queryFinish"}

WriteFaults == {"getwd", "open", "prepare", "exec"}


\* checkExerciseOverlapping of the create path up to the return of its first
\* query: done when it has returned, onStart the count the query wrote
checkExerciseOverlappingStart(table, userID, startDate, finishDate, fault) ==
    IF fault = "getwd"
    THEN [done |-> TRUE, isOverlapping |-> FALSE, err |-> ErrGetwd, onStart |-> 0]
    ELSE IF fault = "open"
    THEN [done |-> TRUE, isOverlapping |-> TRUE, err |-> ErrOpen, onStart |-> 0]
    ELSE [done |-> FALSE, isOverlapping |-> FALSE, err |-> Nil,
          onStart |-> IF fault = "queryStart" THEN 0
                      ELSE CountStartBetween(table, userID, startDate, finishDate)]

\* checkExerciseOverlapping of the update path up to there: no Getwd
checkExerciseOverlappingUpdateStart(table, userID, startDate, finishDate, fault) ==
    IF fault = "open"
    THEN [done |-> TRUE, isOverlapping |-> TRUE, err |-> ErrOpen, onStart |-> 0]
    ELSE [done |-> FALSE, isOverlapping |-> FALSE, err |-> Nil,
          onStart |-> IF fault = "queryStart" THEN 0
                      ELSE CountStartBetween(table, userID, startDate, finishDate)]

\* checkExerciseOverlapping (either path) from its second query on
checkExerciseOverlappingFinish(table, userID, startDate, finishDate, onStart, fault) ==
    OverlapDecision(onStart,
                    IF fault = "queryFinish" THEN 0
                    ELSE CountFinishBetween(table, userID, startDate, finishDate))

\* checkExerciseOverlapping on a table that no request changes between its two
\* queries
checkExerciseOverlapping(table, userID, startDate, finishDate) ==
    checkExerciseOverlappingFinish(table, userID, startDate, finishDate,
        checkExerciseOverlappingStart(table, userID, startDate, finishDate, NoFault).onStart,
        NoFault)

\* the field checks of validateCreateExerciseRequest, in their order
createFieldError(e) ==
    IF e.UserID = 0 THEN ErrMissingUserID
    ELSE IF e.Description = "" THEN ErrMissingDescription
    ELSE IF ~isAlphaNumericString(e.Description) THEN ErrInvalidDescription
    ELSE IF e.ExerciseType = "" THEN ErrMissingType
    ELSE IF e.ExerciseType \notin validTypes THEN ErrInvalidType
    ELSE IF e.StartTime = ZeroTime THEN ErrMissingStartTime
    ELSE IF e.Duration = 0 THEN ErrMissingDuration
    ELSE IF e.Calories = 0 THEN ErrMissingCalories
    ELSE Nil

\* a row inserted without its finish
NewRowWithoutFinish(e, table) ==
    [ID |-> Len(table) + 1,
     UserID |-> e.UserID,
     Description |-> e.Description,
     ExerciseType |-> e.ExerciseType,
     StartTime |-> e.StartTime,
     FinishTime |-> ZeroTime,
     Duration |-> e.Duration,
     Calories |-> e.Calories]

\* the row createExercise inserts; AUTOINCREMENT gives it the next ID
NewRow(e, table) ==
    [ID |-> Len(table) + 1,
     UserID |-> e.UserID,
     Description |-> e.Description,
     ExerciseType |-> e.ExerciseType,
     StartTime |-> e.StartTime,
     FinishTime |-> addDurationToDate(e.StartTime, e.Duration),
     Duration |-> e.Duration,
     Calories |-> e.Calories]

\* an insert that looks for a colliding row again and refuses when there is one
createExerciseIfFree(e, table, fault) ==
    IF fault = "getwd" THEN [err |-> ErrGetwd, table |-> table, e |-> e]
    ELSE IF fault = "open" THEN [err |-> ErrOpen, table |-> table, e |-> e]
    ELSE IF fault = "prepare" THEN [err |-> ErrPrepare, table |-> table, e |-> e]
    ELSE IF fault = "exec" THEN [err |-> ErrExec, table |-> table, e |-> e]
    ELSE IF checkExerciseOverlapping(table, e.UserID, e.StartTime,
                addDurationToDate(e.StartTime, e.Duration)).isOverlapping
         THEN [err |-> ErrExerciseOverlapping, table |-> table, e |-> e]
    ELSE [err |-> Nil, table |-> Append(table, NewRow(e, table)),
          e |-> [e EXCEPT !.ID = Len(table) + 1]]

\* createExercise: the error it returns, the table it leaves, and e as it
\* leaves it (e.ID, err = result.LastInsertId())
createExercise(e, table, fault) ==
    IF fault = "getwd" THEN [err |-> ErrGetwd, table |-> table, e |-> e]
    ELSE IF fault = "open" THEN [err |-> ErrOpen, table |-> table, e |-> e]
    ELSE IF fault = "prepare" THEN [err |-> ErrPrepare, table |-> table, e |-> e]
    ELSE IF fault = "exec" THEN [err |-> ErrExec, table |-> table, e |-> e]
    ELSE [err |-> Nil, table |-> Append(table, NewRow(e, table)),
          e |-> [e EXCEPT !.ID = Len(table) + 1]]

updateFieldError(e, ID) ==
    IF ID = 0 THEN ErrMissingID
    ELSE IF e.UserID # 0 THEN ErrUnwantedUserID
    ELSE IF e.Description = "" THEN ErrMissingDescription
    ELSE IF ~isAlphaNumericString(e.Description) THEN ErrInvalidDescription
    ELSE IF e.ExerciseType # "" THEN ErrUnwantedType
    ELSE IF e.StartTime = ZeroTime THEN ErrMissingStartTime
    ELSE IF e.Duration = 0 THEN ErrMissingDuration
    ELSE IF e.Calories = 0 THEN ErrMissingCalories
    ELSE Nil

\* `SELECT COUNT(*) exercises WHERE ID=$1;` has no FROM clause: exercises is a
\* column alias, SQLite rejects the statement ("no such column: ID"), the
\* error of Scan is discarded and numberOfElements keeps its zero value
CountByID(table, ID) == 0

\* an UPDATE that also writes the owner and the category of the request
UpdateRowAndOwner(table, e, ID) ==
    [i \in 1..Len(table) |->
        IF table[i].ID = ID
        THEN [table[i] EXCEPT !.UserID = e.UserID,
                              !.ExerciseType = e.ExerciseType,
                              !.Description = e.Description,
                              !.StartTime = e.StartTime,
                              !.FinishTime = addDurationToDate(e.StartTime, e.Duration),
                              !.Duration = e.Duration,
                              !.Calories = e.Calories]
        ELSE table[i]]

\* UPDATE exercises SET DESCRIPTION, START_TIME, FINISH_TIME, DURATION, CALORIES WHERE ID=$6
UpdateRow(table, e, ID) ==
    [i \in 1..Len(table) |->
        IF table[i].ID = ID
        THEN [table[i] EXCEPT !.Description = e.Description,
                              !.StartTime = e.StartTime,
                              !.FinishTime = addDurationToDate(e.StartTime, e.Duration),
                              !.Duration = e.Duration,
                              !.Calories = e.Calories]
        ELSE table[i]]

\* SELECT USER_ID, TYPE FROM exercises WHERE ID=$1, scanned into e
WithOwnerAndType(table, e, ID) ==
    IF \E i \in 1..Len(table) : table[i].ID = ID
    THEN LET r == table[CHOOSE i \in 1..Len(table) : table[i].ID = ID]
         IN  [e EXCEPT !.UserID = r.UserID, !.ExerciseType = r.ExerciseType]
    ELSE [e EXCEPT !.UserID = 0, !.ExerciseType = ""]

\* updateExercise: the error it returns, the table it leaves, e as it leaves it
updateExercise(e, ID, table, fault) ==
    IF fault = "open" THEN [err |-> ErrDatabaseError, table |-> table, e |-> e]
    ELSE IF CountByID(table, ID) = 0
         THEN [err |-> ErrNoExerciseFound, table |-> table, e |-> e]
    ELSE IF fault = "prepare"
         THEN [err |-> ErrDatabaseError, table |-> table, e |-> e]
    ELSE IF fault = "exec"
         THEN [err |-> ErrExec, table |-> table, e |-> WithOwnerAndType(table, e, ID)]
    ELSE [err |-> Nil, table |-> UpdateRow(table, e, ID),
          e |-> WithOwnerAndType(table, e, ID)]

-----------------------------------------------------------------------------
(* SpecScore: calculatePointsByExerciseType applied to bounded row lists   *)

MaxRows == 12

FullPrefix == 3

\* rows of the worked example, and a negative duration that outweighs the
\* calories (validation rejects only duration = 0 and calories = 0)
HeadRows ==
    {Row(600, 70, 39600), Row(1200, 100, 36000), Row(60, 10, 32400), Row(-6000, 70, 34200)}

MidRows == {Row(61, 10, 30000)}

TailRows == {Row(61, 10, 30000), Row(600, 70, 39600)}

\* the rows drawn for position k: any head row in the first positions, any tail
\* row in the last two
RowsAt(k) ==
    IF k <= FullPrefix THEN HeadRows
    ELSE IF k > MaxRows - 2 THEN TailRows
    ELSE MidRows

\* no ranking request is being served
RankIdle ==
    [pc |-> "idle", users |-> <<>>, fault |-> None, read |-> <<>>,
     pointsByUser |-> <<>>, totalPoints |-> <<>>,
     status |-> 0, ranking |-> <<>>, error |-> None]

InitScore ==
    /\ exerciseType \in exerciseTypes
    /\ userExercises = <<>>
    /\ pointsByType = <<>>
    /\ rankTable = <<>>
    /\ rankResponse = RankIdle
    /\ exercises = <<>>
    /\ inflight = <<>>

\* one more (older) row comes back from the query
FetchRow(r) ==
    /\ pointsByType = <<>>
    /\ Len(userExercises) < MaxRows
    /\ userExercises' = Append(userExercises, r)
    /\ UNCHANGED <<exerciseType, pointsByType, rankTable, rankResponse, exercises, inflight>>

CalculatePoints ==
    /\ pointsByType = <<>>
    /\ pointsByType' = <<calculatePointsByExerciseType("1", exerciseType, userExercises)>>
    /\ UNCHANGED <<exerciseType, userExercises, rankTable, rankResponse, exercises, inflight>>

NextScore ==
    \/ \E r \in RowsAt(Len(userExercises) + 1) : FetchRow(r)
    \/ CalculatePoints

SpecScore == InitScore /\ [][NextScore]_vars

SpecWeight(t) ==
    CASE t = RunningType -> 2
      [] t = SwimmingType -> 3
      [] t = StrenghtTrainingType -> 3
      [] t = CircuitTrainingType -> 4

\* the score the specification gives, evaluated in float64 position by
\* position: the sum over k < min(n, 10) of
\* (ceil(duration_k / 60) + calories_k) * weight * (100 - 10k) / 100
RECURSIVE SpecScoreFrom(_, _, _, _)
SpecScoreFrom(t, rows, k, score) ==
    IF k > Min(Len(rows), 10) THEN score
    ELSE SpecScoreFrom(t, rows, k + 1,
            FAdd(score,
                 FMul(FFromInt((CeilDiv(rows[k].Duration, 60) + rows[k].Calories)
                                 * SpecWeight(t)),
                      FQuot(100 - 10 * (k - 1), 100))))

SpecScoreOf(t, rows) == SpecScoreFrom(t, rows, 1, FZero)

ExampleRows == <<Row(600, 70, 39600), Row(1200, 100, 36000), Row(60, 10, 32400)>>

\* the float64 393.6
ExampleScore == FQuot(3936, 10)

\* C1: calculatePointsByExerciseType returns, for every most-recent-first row
\* list of a category, the sum over the first min(n, 10) positions k of
\* (ceil(duration_k / 60) + calories_k) * weight * (100 - 10k) / 100, and the
\* running example (600s,70), (1200s,100), (60s,10) scores 393.6
C1_ScoreIsSpecFormula ==
    pointsByType # <<>> =>
        /\ pointsByType[1].Points = SpecScoreOf(exerciseType, userExercises)
        /\ (exerciseType = RunningType /\ userExercises = ExampleRows
              => pointsByType[1].Points = ExampleScore)

\* C1 (the worked example alone): the three running rows score 393.6
C1_ExampleScored ==
    /\ pointsByType # <<>>
    /\ exerciseType = RunningType
    /\ userExercises = ExampleRows
    /\ pointsByType[1].Points = ExampleScore

\* C2: a row list of more than 10 entries scores what its first 10 entries score
C2_DecayFloor ==
    (pointsByType # <<>> /\ Len(userExercises) > 10) =>
        pointsByType[1].Points =
            calculatePointsByExerciseType("1", exerciseType, Take(userExercises, 10)).Points

\* a list of more than 10 rows has been scored, its score is not an integer
\* and its 11th row alone would score more than 0
C2_LongListScored ==
    /\ pointsByType # <<>>
    /\ Len(userExercises) > 10
    /\ FLess(FZero, pointsByType[1].Points)
    /\ pointsByType[1].Points.exp < 0
    /\ basePointsOf(userExercises[11], getMultiplicationFactor(exerciseType)) > 0

\* C16: the score of every category is greater than or equal to 0 for every
\* list of rows that the create and update paths let into the table
C16_ScoreNonNegative ==
    pointsByType # <<>> => ~FLess(pointsByType[1].Points, FZero)


-----------------------------------------------------------------------------
(* SpecRank: RankingEndpoint, one step per query of getExercisesByType,    *)
(* while exercises are logged by other requests                            *)

MaxLogged == 2

MaxUsers == 3

UserIDs == {"1", "2", "3"}

\* categories and rows the logged history is drawn from
LoggedTypes == {RunningType, SwimmingType}

LoggedRows == {Row(600, 70, 39600), Row(600, 70, 36000)}

ErrInvalidUserIDs == "Invalid params userIDs"

ErrStorage == "storage failure"

\* The data access that fails while a ranking request is served, if any:
\*   "open"   sql.Open fails in getExercisesByType
\*   "query"  database.Query fails in getExercisesByType
\*   "scan"   result.Scan / time.Parse fails in setResult on the rows it reads
RankFaults == {"open", "query", "scan"}

\* setResult: the rows and the error it returns; with no row to read nothing is
\* scanned and nothing fails
setResult(rows, fault) ==
    IF fault = "scan" /\ Len(rows) > 0
    THEN [rows |-> <<>>, err |-> ErrStorage]
    ELSE [rows |-> rows, err |-> Nil]

\* what getExercisesByType returns once its query has run:
\* `userExercises, err := setResult(result)` then `return userExercises, nil`
RowsReturned(rows, fault) == setResult(rows, fault).rows

\* the userIds query parameter: absent, a first value that is empty, or user ids
RequestUsers ==
    {<<>>, <<"">>} \cup
    {us \in UNION {[1..n -> UserIDs] : n \in 1..MaxUsers} :
        \A i, j \in 1..Len(us) : i # j => us[i] # us[j]}

RECURSIVE CountRows(_, _)
CountRows(table, cells) ==
    IF cells = {} THEN 0
    ELSE LET c == CHOOSE x \in cells : TRUE
         IN  Len(table[c[1]][c[2]]) + CountRows(table, cells \ {c})

Logged(table) == CountRows(table, UserIDs \X exerciseTypes)

InitRank ==
    /\ exerciseType = RunningType
    /\ userExercises = <<>>
    /\ pointsByType = <<>>
    /\ rankTable = [u \in UserIDs |-> [t \in exerciseTypes |-> <<>>]]
    /\ rankResponse = RankIdle
    /\ exercises = <<>>
    /\ inflight = <<>>

\* START_TIME of a row: createExercise stores FINISH_TIME = START_TIME + DURATION
StartTimeOf(r) == r.FinishTime - r.Duration

\* the rows with r entered after the first k of them
InsertAt(rows, k, r) == SubSeq(rows, 1, k) \o <<r>> \o SubSeq(rows, k + 1, Len(rows))

\* the query returns its rows ORDER BY START_TIME DESC: no row starts later
\* than a row before it
OrderedByStartDesc(rows) ==
    \A i, j \in 1..Len(rows) : i < j => StartTimeOf(rows[i]) >= StartTimeOf(rows[j])

\* a POST /exercise of another request stores an exercise of user u in category
\* t that lies in the lookback window, at any moment of a ranking request: the
\* query then returns it at position k + 1, where ORDER BY START_TIME DESC puts
\* it (among rows of one START_TIME the order is the database's choice)
LogExercise(u, t, r, k) ==
    /\ k <= Len(rankTable[u][t])
    /\ OrderedByStartDesc(InsertAt(rankTable[u][t], k, r))
    /\ rankTable' = [rankTable EXCEPT ![u][t] = InsertAt(@, k, r)]
    /\ UNCHANGED <<exerciseType, userExercises, pointsByType, rankResponse, exercises, inflight>>

\* !ok || len(users[0]) < 1
InvalidUserIDs(users) == IF Len(users) = 0 THEN TRUE ELSE users[1] = ""

\* RankingEndpoint up to the first query of getTotalPoints
RankingEndpoint(users) ==
    /\ rankResponse.pc = "idle"
    /\ rankResponse' =
          IF InvalidUserIDs(users)
          THEN [RankIdle EXCEPT !.pc = "done", !.users = users, !.status = 400,
                                !.error = ErrInvalidUserIDs]
          ELSE [RankIdle EXCEPT !.pc = "query", !.users = users]
    /\ UNCHANGED <<exerciseType, userExercises, pointsByType, rankTable, exercises, inflight>>

\* the categories the range over exerciseTypes has visited for the current user
Visited(pointsByUser) == {pointsByUser[k].ExerciseType : k \in 1..Len(pointsByUser)}

\* One iteration of the loop of getTotalPointsByUser for the current user (the
\* one after those of totalPoints): the range yields category t,
\* getExercisesByType runs its query (its own sql.Open and Query),
\* calculatePointsByExerciseType scores the rows it returns and the result is
\* appended to pointsByUser.  fault is the data access that fails in this
\* iteration, if any.
RankingQuery(t, fault) ==
    /\ rankResponse.pc = "query"
    /\ t \notin Visited(rankResponse.pointsByUser)
    /\ fault # None => rankResponse.fault = None
    /\ LET userID == rankResponse.users[Len(rankResponse.totalPoints) + 1]
           stored == getExercisesByType(t, userID, rankTable)
           rows == RowsReturned(stored, fault)
           faulted == [rankResponse EXCEPT !.fault = IF fault = None THEN @ ELSE fault]
       IN  /\ fault = "scan" => Len(stored) > 0
           /\ rankResponse' =
                 IF fault \in {"open", "query"}
                 THEN [faulted EXCEPT !.pc = "done", !.read = <<>>, !.pointsByUser = <<>>,
                                      !.totalPoints = <<>>,
                                      !.status = 500, !.error = ErrStorage]
                 ELSE [faulted EXCEPT
                          !.read = Append(@, rows),
                          !.pointsByUser =
                              Append(@, calculatePointsByExerciseType(userID, t, rows)),
                          !.pc = IF Len(rankResponse.pointsByUser) + 1 < Cardinality(exerciseTypes)
                                 THEN "query" ELSE "total"]
    /\ UNCHANGED <<exerciseType, userExercises, pointsByType, rankTable, exercises, inflight>>

\* The range is over: totalPointsByUser folds the scores of the current user,
\* getTotalPoints appends the result and goes to the next user; after the last
\* user RankingEndpoint sorts totalPoints and replies.
RankingTotal ==
    /\ rankResponse.pc = "total"
    /\ LET userID == rankResponse.users[Len(rankResponse.totalPoints) + 1]
           totalPoints ==
               Append(rankResponse.totalPoints,
                      totalPointsByUser(userID, rankResponse.pointsByUser))
       IN  rankResponse' =
              IF Len(totalPoints) < Len(rankResponse.users)
              THEN [rankResponse EXCEPT !.pc = "query", !.read = <<>>,
                                        !.pointsByUser = <<>>,
                                        !.totalPoints = totalPoints]
              \* sort.Sort sorts the slice totalPoints in place
              ELSE [rankResponse EXCEPT !.pc = "done", !.read = <<>>,
                                        !.pointsByUser = <<>>,
                                        !.totalPoints = SortByPoints(totalPoints),
                                        !.status = 200,
                                        !.ranking = SortByPoints(totalPoints)]
    /\ UNCHANGED <<exerciseType, userExercises, pointsByType, rankTable, exercises, inflight>>

\* the response has been written to the client
DeliverRanking ==
    /\ rankResponse.pc = "done"
    /\ rankResponse' = RankIdle
    /\ UNCHANGED <<exerciseType, userExercises, pointsByType, rankTable, exercises, inflight>>

NextRank ==
    \/ /\ Logged(rankTable) < MaxLogged
       /\ \E u \in UserIDs, t \in LoggedTypes, r \in LoggedRows, k \in 0..MaxLogged :
             LogExercise(u, t, r, k)
    \/ \E users \in RequestUsers : RankingEndpoint(users)
    \/ \E t \in exerciseTypes, fault \in RankFaults \cup {None} : RankingQuery(t, fault)
    \/ RankingTotal
    \/ DeliverRanking

SpecRank == InitRank /\ [][NextRank]_vars


MaxOf(S) == CHOOSE m \in S : \A x \in S : x <= m

\* the positions of pointsByUser whose category returned at least one record
WithRecords(request) == {k \in 1..Len(request.read) : Len(request.read[k]) > 0}

\* C9: the last-activity timestamp totalPointsByUser produces for a user is the
\* maximum finish timestamp among the per-category results that have at least
\* one record, whatever the order in which the categories were iterated
C9_LastActivityIsMax ==
    rankResponse.pc = "total" =>
        LET pointsByUser == rankResponse.pointsByUser
            userID == rankResponse.users[Len(rankResponse.totalPoints) + 1]
            dates == {pointsByUser[k].LastExerciseDate : k \in WithRecords(rankResponse)}
        IN  dates # {} =>
               totalPointsByUser(userID, pointsByUser).LastExerciseDate = MaxOf(dates)

\* C10: the ranking is ordered: an earlier entry has a strictly higher score, or
\* an equal score and a last activity that is not older; Less is irreflexive
\* and transitive on the ranked entries
C10_RankingOrdered ==
    rankResponse.status = 200 =>
        LET p == rankResponse.ranking
            E == {p[i] : i \in 1..Len(p)}
        IN  /\ \A i, j \in 1..Len(p) :
                 i < j => \/ FLess(p[j].Points, p[i].Points)
                          \/ /\ p[i].Points = p[j].Points
                             /\ p[i].LastExerciseDate >= p[j].LastExerciseDate
            /\ \A a \in E : ~Less(a, a)
            /\ \A a, b, c \in E : (Less(a, b) /\ Less(b, c)) => Less(a, c)

\* two users ranked with one score that is not 0, separated by recency, and
\* the sort moved the requested order
C10_TieBrokenByRecency ==
    /\ rankResponse.status = 200
    /\ Len(rankResponse.ranking) = 2
    /\ FLess(FZero, rankResponse.ranking[1].Points)
    /\ rankResponse.ranking[1].Points = rankResponse.ranking[2].Points
    /\ rankResponse.ranking[1].LastExerciseDate > rankResponse.ranking[2].LastExerciseDate
    /\ rankResponse.ranking[1].UserID = rankResponse.users[2]

\* C11: two ranking computations for one list of users over the same stored
\* records return the same ordered list of (user, score, last activity):
\* whatever order the category table is iterated in, for the users of a request
\* that has been served and the records the table holds
C11_RankingDeterministic ==
    (rankResponse.status = 200 /\ rankResponse.fault = None) =>
        \A a, b \in getTotalPoints(rankResponse.users, rankTable) :
            SortByPoints(a) = SortByPoints(b)

\* C12: a user whose categories all returned no record gets score 0 and the
\* unset timestamp, and an entry with score 0 and the unset timestamp is ranked
\* after every entry whose score is positive
C12_InactiveRankedLast ==
    /\ (rankResponse.pc = "total" /\ WithRecords(rankResponse) = {}) =>
          LET userID == rankResponse.users[Len(rankResponse.totalPoints) + 1]
          IN  totalPointsByUser(userID, rankResponse.pointsByUser) =
                 [UserID |-> userID, Points |-> FZero, LastExerciseDate |-> ZeroTime]
    /\ rankResponse.status = 200 =>
          \A i, j \in 1..Len(rankResponse.ranking) :
             (/\ rankResponse.ranking[i].Points = FZero
              /\ rankResponse.ranking[i].LastExerciseDate = ZeroTime
              /\ FLess(FZero, rankResponse.ranking[j].Points)) => j < i

\* the user requested first never had a record, the user requested after it
\* has a positive score, and the ranking puts the first one last
C12_InactiveMovedToBottom ==
    /\ rankResponse.status = 200
    /\ rankResponse.fault = None
    /\ Len(rankResponse.ranking) = 2
    /\ \A t \in exerciseTypes : rankTable[rankResponse.users[1]][t] = <<>>
    /\ rankResponse.ranking[2].UserID = rankResponse.users[1]
    /\ rankResponse.ranking[2].Points = FZero
    /\ rankResponse.ranking[2].LastExerciseDate = ZeroTime
    /\ FLess(FZero, rankResponse.ranking[1].Points)

\* C13: a ranking request during which a storage access fails (sql.Open, the
\* query, or the scan of a returned row) is answered with an error and no
\* ranking list
C13_RankingFailsOnStorageFailure ==
    (rankResponse.pc = "done" /\ rankResponse.fault \in RankFaults) =>
        (rankResponse.status = 500 /\ rankResponse.ranking = <<>>)


-----------------------------------------------------------------------------
(* The create and update handlers.  A request of client c is served in one   *)
(* step per database round trip: the two COUNT queries of the overlap guard, *)
(* then the write.  inflight[c] holds the request, the position it has       *)
(* reached, the locals it carries from one step to the next and, once it is  *)
(* "done", the Response written to the client.                               *)

MaxExercises == 2

\* the clients of the server; the first one is the client of Spec
Clients == {1, 2}

FirstClient == 1

\* the time windows of the requests, <<start, duration>> in seconds (start counted
\* from midnight): [09:00,09:30], [09:00,10:00], [10:00,11:00], [10:30,10:45]
\* and [10:30,11:30]
Windows ==
    {<<32400, 1800>>, <<32400, 3600>>, <<36000, 3600>>, <<37800, 900>>, <<37800, 3600>>}

Owners == {1, 2}

\* the Exercise a create body decodes to; a body carries no id
BaseCreate ==
    [ID |-> 0, UserID |-> 1, Description |-> "morning run", ExerciseType |-> RunningType,
     StartTime |-> 36000, Duration |-> 3600, Calories |-> 300]

ValidCreates ==
    {[BaseCreate EXCEPT !.UserID = u, !.StartTime = w[1], !.Duration = w[2]] :
        u \in Owners, w \in Windows}

\* one request per field check that rejects it
InvalidCreates ==
    {[BaseCreate EXCEPT !.UserID = 0],
     [BaseCreate EXCEPT !.Description = ""],
     [BaseCreate EXCEPT !.Description = "run!"],
     [BaseCreate EXCEPT !.ExerciseType = ""],
     [BaseCreate EXCEPT !.ExerciseType = "YOGA"],
     [BaseCreate EXCEPT !.StartTime = ZeroTime],
     [BaseCreate EXCEPT !.Duration = 0],
     [BaseCreate EXCEPT !.Calories = 0]}

\* a request body: <<e>> when it decodes to e, <<>> when it does not decode
CreateBodies == {<<e>> : e \in ValidCreates \cup InvalidCreates} \cup {<<>>}

\* the Exercise an update body decodes to (the struct of the update package
\* has no ID field)
BaseUpdate ==
    [UserID |-> 0, Description |-> "morning run", ExerciseType |-> "",
     StartTime |-> 36000, Duration |-> 3600, Calories |-> 300]

ValidUpdates ==
    {[BaseUpdate EXCEPT !.StartTime = w[1], !.Duration = w[2]] : w \in Windows}

InvalidUpdates ==
    {[BaseUpdate EXCEPT !.UserID = 1],
     [BaseUpdate EXCEPT !.Description = ""],
     [BaseUpdate EXCEPT !.Description = "run!"],
     [BaseUpdate EXCEPT !.ExerciseType = RunningType],
     [BaseUpdate EXCEPT !.StartTime = ZeroTime],
     [BaseUpdate EXCEPT !.Duration = 0],
     [BaseUpdate EXCEPT !.Calories = 0]}

UpdateBodies == {<<e>> : e \in ValidUpdates \cup InvalidUpdates} \cup {<<>>}

\* the exerciseId path parameter: <<n>> when ParseInt gives n, <<>> when it fails
UpdateIDs == {<<n>> : n \in 0..(MaxExercises + 1)} \cup {<<>>}

\* client c has no request in flight
ClientIdle ==
    [pc |-> "idle", op |-> None, ID |-> <<>>, body |-> <<>>, fault |-> NoFault,
     onStart |-> 0, status |-> 0, error |-> Nil, exercise |-> <<>>]

\* the request that has been decoded: op, path parameter, body, and the data
\* access that has failed for it so far
Request(op, id, body, fault) ==
    [ClientIdle EXCEPT !.op = op, !.ID = id, !.body = body, !.fault = fault]

\* a response that always carries the decoded request as its exercise
ReplyWithRequest(request, status, error, exercise) ==
    [request EXCEPT !.pc = "done", !.onStart = 0, !.status = status, !.error = error,
                    !.exercise = request.body]

\* response(w, httpStatus, newResponse, err): the request is answered
Reply(request, status, error, exercise) ==
    [request EXCEPT !.pc = "done", !.onStart = 0, !.status = status, !.error = error,
                    !.exercise = exercise]

\* the create requests that are past their decoding and not yet answered
PendingCreates ==
    {c \in Clients : inflight[c].op = "create" /\ inflight[c].pc \in {"counted", "validated"}}

Init ==
    /\ exerciseType = RunningType
    /\ userExercises = <<>>
    /\ pointsByType = <<>>
    /\ rankTable = <<>>
    /\ rankResponse = RankIdle
    /\ exercises = <<>>
    /\ inflight = [c \in Clients |-> ClientIdle]

\* create.ExerciseEndpoint (POST /exercise) of client c, from the decoding of
\* the body to the return of the first COUNT query of the overlap guard; fault is
\* the data access that fails in this step, if any
CreateExerciseEndpoint(c, body, fault) ==
    /\ inflight[c].pc = "idle"
    /\ Len(exercises) + Cardinality(PendingCreates) < MaxExercises
    /\ IF body = <<>>
       THEN /\ fault = NoFault
            /\ inflight' = [inflight EXCEPT ![c] =
                  Reply(Request("create", <<>>, body, fault), 400, ErrDecode, <<>>)]
       ELSE LET e == body[1]
                request == Request("create", <<>>, body, fault)
                check == checkExerciseOverlappingStart(
                             exercises, e.UserID, e.StartTime,
                             addDurationToDate(e.StartTime, e.Duration), fault)
            IN  IF createFieldError(e) # Nil
                THEN /\ fault = NoFault
                     /\ inflight' = [inflight EXCEPT ![c] =
                           Reply(request, 400, createFieldError(e), <<>>)]
                ELSE /\ fault \in {NoFault, "getwd", "open", "queryStart"}
                     /\ inflight' = [inflight EXCEPT ![c] =
                           IF ~check.done
                           THEN [request EXCEPT !.pc = "counted", !.onStart = check.onStart]
                           ELSE IF check.isOverlapping
                           THEN Reply(request, 400, check.err, <<>>)
                           ELSE [request EXCEPT !.pc = "validated"]]
    /\ UNCHANGED <<exerciseType, userExercises, pointsByType, rankTable, rankResponse, exercises>>

\* update.ExerciseEndpoint (PUT /exercise/{exerciseId}) of client c, from the
\* decoding of the body to the return of the first COUNT query of the guard
UpdateExerciseEndpoint(c, id, body, fault) ==
    /\ inflight[c].pc = "idle"
    /\ IF body = <<>>
       THEN /\ fault = NoFault
            /\ inflight' = [inflight EXCEPT ![c] =
                  Reply(Request("update", id, body, fault), 400, ErrDecode, <<>>)]
       ELSE IF id = <<>>
       THEN /\ fault = NoFault
            /\ inflight' = [inflight EXCEPT ![c] =
                  Reply(Request("update", id, body, fault), 400, ErrParseInt, <<>>)]
       ELSE LET e == body[1]
                request == Request("update", id, body, fault)
                check == checkExerciseOverlappingUpdateStart(
                             exercises, e.UserID, e.StartTime,
                             addDurationToDate(e.StartTime, e.Duration), fault)
            IN  IF updateFieldError(e, id[1]) # Nil
                THEN /\ fault = NoFault
                     /\ inflight' = [inflight EXCEPT ![c] =
                           Reply(request, 400, updateFieldError(e, id[1]), <<>>)]
                ELSE /\ fault \in {NoFault, "open", "queryStart"}
                     /\ inflight' = [inflight EXCEPT ![c] =
                           IF ~check.done
                           THEN [request EXCEPT !.pc = "counted", !.onStart = check.onStart]
                           ELSE Reply(request, 400, check.err, <<>>)]
    /\ UNCHANGED <<exerciseType, userExercises, pointsByType, rankTable, rankResponse, exercises>>

\* checkExerciseOverlapping of client c (create or update) from its second
\* COUNT query to the return of the validation
CountOnFinish(c, fault) ==
    /\ inflight[c].pc = "counted"
    /\ fault \in {NoFault, "queryFinish"}
    /\ fault # NoFault => inflight[c].fault = NoFault
    /\ LET e == inflight[c].body[1]
           request == [inflight[c] EXCEPT !.fault = IF fault = NoFault THEN @ ELSE fault]
           check == checkExerciseOverlappingFinish(
                        exercises, e.UserID, e.StartTime,
                        addDurationToDate(e.StartTime, e.Duration),
                        inflight[c].onStart, fault)
       IN  inflight' = [inflight EXCEPT ![c] =
              IF check.isOverlapping
              THEN Reply(request, 400, check.err, <<>>)
              ELSE [request EXCEPT !.pc = "validated", !.onStart = 0]]
    /\ UNCHANGED <<exerciseType, userExercises, pointsByType, rankTable, rankResponse, exercises>>

\* create.ExerciseEndpoint of client c from the call of createExercise on.  A
\* working directory that was gone for the guard is gone for the insert.
InsertExercise(c, fault) ==
    /\ inflight[c].pc = "validated"
    /\ inflight[c].op = "create"
    /\ fault \in {NoFault, "prepare", "exec"}
    /\ fault # NoFault => inflight[c].fault = NoFault
    /\ LET request == [inflight[c] EXCEPT !.fault = IF fault = NoFault THEN @ ELSE fault]
           made == createExercise(inflight[c].body[1], exercises,
                                  IF inflight[c].fault = "getwd" THEN "getwd" ELSE fault)
       IN  /\ exercises' = made.table
           /\ inflight' = [inflight EXCEPT ![c] =
                 IF made.err # Nil
                 THEN Reply(request, 500, made.err, <<>>)
                 ELSE Reply(request, 201, Nil, <<made.e>>)]
    /\ UNCHANGED <<exerciseType, userExercises, pointsByType, rankTable, rankResponse>>

\* update.ExerciseEndpoint of client c from the call of updateExercise on
ApplyUpdate(c) ==
    /\ inflight[c].pc = "validated"
    /\ inflight[c].op = "update"
    /\ LET upd == updateExercise(inflight[c].body[1], inflight[c].ID[1], exercises,
                                 inflight[c].fault)
       IN  /\ exercises' = upd.table
           /\ inflight' = [inflight EXCEPT ![c] =
                 IF upd.err # Nil
                 THEN Reply(inflight[c], 500, upd.err, <<>>)
                 ELSE Reply(inflight[c], 200, Nil, <<upd.e>>)]
    /\ UNCHANGED <<exerciseType, userExercises, pointsByType, rankTable, rankResponse>>

\* the response has been written to client c
DeliverResponse(c) ==
    /\ inflight[c].pc = "done"
    /\ inflight' = [inflight EXCEPT ![c] = ClientIdle]
    /\ UNCHANGED <<exerciseType, userExercises, pointsByType, rankTable, rankResponse, exercises>>

\* Spec: one client, which sends its next request once the previous one is
\* answered, so that the requests are served one at a time
Next ==
    \/ \E body \in CreateBodies, fault \in GuardFaults \cup {NoFault} :
          CreateExerciseEndpoint(FirstClient, body, fault)
    \/ \E id \in UpdateIDs, body \in UpdateBodies, fault \in GuardFaults \cup {NoFault} :
          UpdateExerciseEndpoint(FirstClient, id, body, fault)
    \/ \E fault \in GuardFaults \cup {NoFault} : CountOnFinish(FirstClient, fault)
    \/ \E fault \in WriteFaults \cup {NoFault} : InsertExercise(FirstClient, fault)
    \/ ApplyUpdate(FirstClient)
    \/ DeliverResponse(FirstClient)

Spec == Init /\ [][Next]_vars


-----------------------------------------------------------------------------
(* SpecConc: the clients send their requests at any moment, so the steps of *)
(* one request interleave with the steps of the others                      *)

\* [10:00,11:00], [09:00,10:00] which ends where the first one starts, and
\* [10:30,10:45] inside the first one
ConcWindows == {<<36000, 3600>>, <<32400, 3600>>, <<37800, 900>>}

ConcCreates ==
    {[BaseCreate EXCEPT !.StartTime = w[1], !.Duration = w[2]] : w \in ConcWindows}
    \cup {[BaseCreate EXCEPT !.UserID = 2]}

ConcCreateBodies ==
    {<<e>> : e \in ConcCreates} \cup {<<[BaseCreate EXCEPT !.Calories = 0]>>, <<>>}

ConcUpdateBodies ==
    {<<BaseUpdate>>, <<[BaseUpdate EXCEPT !.StartTime = 32400]>>,
     <<[BaseUpdate EXCEPT !.ExerciseType = RunningType]>>}

ConcUpdateIDs == {<<1>>, <<>>}

NextConc ==
    \/ \E c \in Clients, body \in ConcCreateBodies, fault \in GuardFaults \cup {NoFault} :
          CreateExerciseEndpoint(c, body, fault)
    \/ \E c \in Clients, id \in ConcUpdateIDs, body \in ConcUpdateBodies,
          fault \in GuardFaults \cup {NoFault} :
          UpdateExerciseEndpoint(c, id, body, fault)
    \/ \E c \in Clients, fault \in GuardFaults \cup {NoFault} : CountOnFinish(c, fault)
    \/ \E c \in Clients, fault \in WriteFaults \cup {NoFault} : InsertExercise(c, fault)
    \/ \E c \in Clients : ApplyUpdate(c)
    \/ \E c \in Clients : DeliverResponse(c)

SpecConc == Init /\ [][NextConc]_vars


-----------------------------------------------------------------------------
(* The overlap guard, as the specification states it                        *)

\* a stored record of the user has its start or its finish inside [ps, pf]
Collision(table, userID, ps, pf) ==
    \E i \in 1..Len(table) :
        /\ table[i].UserID = userID
        /\ \/ (ps <= table[i].StartTime /\ table[i].StartTime <= pf)
           \/ (ps <= table[i].FinishTime /\ table[i].FinishTime <= pf)

\* the windows [StartTime, FinishTime] of two rows intersect
Intersect(a, b) == a.StartTime <= b.FinishTime /\ b.StartTime <= a.FinishTime

NoOverlap(table) ==
    \A i, j \in 1..Len(table) :
        (i # j /\ table[i].UserID = table[j].UserID) => ~Intersect(table[i], table[j])

HasWindow(e, start, finish) == e.StartTime = start /\ e.StartTime + e.Duration = finish

\* this step is a step of the request of client c
Stepped(c) == inflight'[c] # inflight[c]

\* this step is the second COUNT query of the guard for the request of client c
\* and the decision that follows it
GuardDecides(c, op) ==
    /\ inflight[c].pc = "counted"
    /\ inflight[c].op = op
    /\ inflight'[c].pc # "counted"

\* this step is the call of createExercise / updateExercise for the request of c
WriteReturns(c, op) ==
    /\ inflight[c].pc = "validated"
    /\ inflight[c].op = op
    /\ inflight'[c].pc = "done"

\* C3: with a stored record [10:00,11:00] of user U, a create request of U for
\* [10:30,10:45] is rejected with the overlap error and one for [09:00,09:30]
\* is accepted: it passes the guard and is inserted (no data access failing)
C3_InsideRejectedBeforeAccepted ==
    [][\A c \in Clients :
          LET e == inflight[c].body[1] IN
          /\ (/\ GuardDecides(c, "create")
              /\ inflight'[c].fault = NoFault
              /\ \E i \in 1..Len(exercises) : exercises[i].UserID = e.UserID
              /\ \A i \in 1..Len(exercises) :
                    exercises[i].UserID = e.UserID
                       => (exercises[i].StartTime = 36000 /\ exercises[i].FinishTime = 39600))
             => /\ HasWindow(e, 37800, 38700)
                      => (inflight'[c].status = 400
                          /\ inflight'[c].error = ErrExerciseOverlapping)
                /\ HasWindow(e, 32400, 34200) => inflight'[c].pc = "validated"
          /\ (/\ WriteReturns(c, "create")
              /\ inflight'[c].fault = NoFault
              /\ HasWindow(e, 32400, 34200))
             => (inflight'[c].status = 201 /\ Len(exercises') = Len(exercises) + 1)]_vars

\* C4: no step of a request served without a data access failure takes a table
\* in which no two records of one user intersect to a table in which two do;
\* the table starts empty, so after any sequence of such requests, served one
\* at a time, no two records of a user have intersecting windows
C4_NoOverlapPreserved ==
    [][(NoOverlap(exercises) /\ \A c \in Clients : inflight'[c].fault = NoFault)
          => NoOverlap(exercises')]_vars

\* C5: the guard of a create request that passes the field checks, its data
\* access succeeding and the table still holding what its first query counted,
\* rejects the request with the overlap error if and only if a stored record of
\* the same user has its start or its finish in
\* [proposed_start, proposed_start + duration], bounds included
C5_OverlapIffCollision ==
    [][\A c \in Clients :
          LET e == inflight[c].body[1]
              pf == e.StartTime + e.Duration
              collides == Collision(exercises, e.UserID, e.StartTime, pf)
          IN  (/\ GuardDecides(c, "create")
               /\ inflight'[c].fault \notin GuardFaults
               /\ inflight[c].onStart
                     = CountStartBetween(exercises, e.UserID, e.StartTime, pf))
              => /\ (inflight'[c].error = ErrExerciseOverlapping) <=> collides
                 /\ collides => (/\ inflight'[c].pc = "done"
                                 /\ inflight'[c].status = 400
                                 /\ exercises' = exercises)
                 /\ ~collides => inflight'[c].pc = "validated"]_vars

\* a create request rejected for a stored record of its user that starts exactly
\* where the proposed window ends, the only record of that user
C5_BoundaryRejected ==
    \E c \in Clients :
        /\ inflight[c].pc = "done"
        /\ inflight[c].op = "create"
        /\ inflight[c].fault = NoFault
        /\ inflight[c].status = 400
        /\ inflight[c].error = ErrExerciseOverlapping
        /\ \E i \in 1..Len(exercises) : exercises[i].UserID = inflight[c].body[1].UserID
        /\ \A i \in 1..Len(exercises) :
              exercises[i].UserID = inflight[c].body[1].UserID
                 => exercises[i].StartTime
                       = inflight[c].body[1].StartTime + inflight[c].body[1].Duration

\* C6: the guard of an update of a stored record R that passes the field checks
\* (no data access failing) rejects it with the overlap error if and only if a
\* stored record other than R, of R's owner, has its start or its finish inside
\* the proposed window
C6_UpdateOverlapIffCollision ==
    [][\A c \in Clients :
          (/\ GuardDecides(c, "update")
           /\ inflight'[c].fault = NoFault
           /\ \E r \in 1..Len(exercises) : exercises[r].ID = inflight[c].ID[1])
          => LET e == inflight[c].body[1]
                 R == exercises[CHOOSE r \in 1..Len(exercises) :
                                    exercises[r].ID = inflight[c].ID[1]]
                 others == SelectSeq(exercises, LAMBDA x : x.ID # R.ID)
             IN  (inflight'[c].error = ErrExerciseOverlapping)
                    <=> Collision(others, R.UserID, e.StartTime, e.StartTime + e.Duration)]_vars

\* C7: a create or update request for which a data access of the overlap check
\* has failed writes nothing and is rejected
C7_GuardFailsClosed ==
    [][\A c \in Clients :
          (/\ Stepped(c)
           /\ inflight'[c].op \in {"create", "update"}
           /\ inflight'[c].fault \in GuardFaults)
          => /\ exercises' = exercises
             /\ inflight'[c].pc = "done" => inflight'[c].status >= 400]_vars

\* C8: the overlap check and the insert are not atomic: a request that has
\* passed the check is inserted whatever the table holds by then (unless the
\* insert itself fails), so two concurrent requests of one user whose windows
\* collide can both pass the check and both be persisted
C8_InsertDoesNotRecheck ==
    [][\A c \in Clients :
          WriteReturns(c, "create")
             => \/ /\ inflight'[c].status = 201
                   /\ exercises' = Append(exercises, NewRow(inflight[c].body[1], exercises))
                \/ /\ inflight'[c].status = 500
                   /\ inflight'[c].error \in {ErrGetwd, ErrPrepare, ErrExec}
                   /\ exercises' = exercises]_vars

\* two requests of one user, each of which the guard rejects once the other is
\* stored, are both answered 201 and both stored, no data access having failed
C8_BothPersisted ==
    /\ Len(exercises) = 2
    /\ exercises[1].UserID = exercises[2].UserID
    /\ Collision(<<exercises[1]>>, exercises[2].UserID,
                 exercises[2].StartTime, exercises[2].FinishTime)
    /\ Collision(<<exercises[2]>>, exercises[1].UserID,
                 exercises[1].StartTime, exercises[1].FinishTime)
    /\ \E c, d \in Clients :
          /\ c # d
          /\ inflight[c].status = 201 /\ inflight[d].status = 201
          /\ inflight[c].fault = NoFault /\ inflight[d].fault = NoFault
          /\ inflight[c].exercise[1].ID = 1 /\ inflight[d].exercise[1].ID = 2
          /\ NewRow(inflight[c].body[1], <<>>) = exercises[1]
          /\ NewRow(inflight[d].body[1], <<exercises[1]>>) = exercises[2]

\* C14: a create or update request that is rejected (status 400: the body or
\* the id does not parse, a field check fails, or the overlap check reports a
\* collision) has left the table as it was in every step up to its rejection,
\* and is answered with an error and no exercise record
C14_RejectionLeavesStore ==
    [][\A c \in Clients :
          (/\ Stepped(c)
           /\ \/ inflight'[c].pc \in {"counted", "validated"}
              \/ inflight'[c].status = 400)
          => /\ exercises' = exercises
             /\ inflight'[c].status = 400
                   => (inflight'[c].error # Nil /\ inflight'[c].exercise = <<>>)]_vars

\* a create request for the very window of a stored record of its user has been
\* rejected and the table still holds that one record
C14_DuplicateRejected ==
    \E c \in Clients :
        /\ inflight[c].op = "create"
        /\ inflight[c].status = 400
        /\ inflight[c].error = ErrExerciseOverlapping
        /\ inflight[c].exercise = <<>>
        /\ Len(exercises) = 1
        /\ exercises[1] = NewRow(inflight[c].body[1], <<>>)

\* the table t differs from the table s at most in the description, start,
\* finish, duration and calories of the record with the given id
OnlyTargetChanged(s, t, id) ==
    /\ Len(t) = Len(s)
    /\ \A i \in 1..Len(s) :
          /\ t[i].ID = s[i].ID
          /\ t[i].UserID = s[i].UserID
          /\ t[i].ExerciseType = s[i].ExerciseType
          /\ s[i].ID # id => t[i] = s[i]

\* C15: an update never changes the owner or the category of a stored record
\* nor any field of a record other than its target: neither a step of an update
\* request, nor the UPDATE statement of updateExercise on any stored table
C15_UpdateKeepsOwnerAndType ==
    [][/\ \A e \in ValidUpdates, id \in 1..MaxExercises :
             OnlyTargetChanged(exercises, UpdateRow(exercises, e, id), id)
       /\ \A c \in Clients :
             (Stepped(c) /\ inflight'[c].op = "update")
                => OnlyTargetChanged(exercises, exercises',
                                     IF inflight'[c].ID = <<>> THEN 0
                                     ELSE inflight'[c].ID[1])]_vars

\* an update of the first of two stored records of different owners, with a
\* body that passes the field checks, has been served
C15_UpdateServed ==
    \E c \in Clients :
        /\ inflight[c].op = "update"
        /\ inflight[c].pc = "done"
        /\ inflight[c].ID = <<1>>
        /\ inflight[c].body # <<>>
        /\ inflight[c].body[1] \in ValidUpdates
        /\ inflight[c].status # 400
        /\ Len(exercises) = 2
        /\ exercises[1].UserID # exercises[2].UserID

\* C17: an update that passes the validation (no data access failing) is
\* rejected as not found exactly when no stored record has the target id; with
\* an existing id and no collision it succeeds, replaces the record's
\* description, start, finish, duration and calories, and returns the record
\* with its stored owner and category
C17_NotFoundIffAbsent ==
    [][\A c \in Clients :
          (WriteReturns(c, "update") /\ inflight'[c].fault = NoFault)
          => LET e == inflight[c].body[1]
                 id == inflight[c].ID[1]
                 present == \E r \in 1..Len(exercises) : exercises[r].ID = id
                 others == SelectSeq(exercises, LAMBDA x : x.ID # id)
             IN  /\ (inflight'[c].error = ErrNoExerciseFound) <=> ~present
                 /\ (/\ present
                     /\ ~Collision(others, exercises[id].UserID,
                                   e.StartTime, e.StartTime + e.Duration))
                       => /\ inflight'[c].status = 200
                          /\ exercises' = UpdateRow(exercises, e, id)
                          /\ inflight'[c].exercise
                                = <<WithOwnerAndType(exercises, e, id)>>]_vars

\* C18: the finish of every stored record is its start plus its duration, and
\* the UPDATE statement of updateExercise keeps it so on every stored table
C18_FinishIsStartPlusDuration ==
    /\ \A i \in 1..Len(exercises) :
          exercises[i].FinishTime = exercises[i].StartTime + exercises[i].Duration
    /\ \A e \in ValidUpdates, id \in 1..MaxExercises :
          LET t == UpdateRow(exercises, e, id) IN
          (\A i \in 1..Len(exercises) :
              exercises[i].FinishTime = exercises[i].StartTime + exercises[i].Duration)
             => \A i \in 1..Len(t) : t[i].FinishTime = t[i].StartTime + t[i].Duration

\* two records of different durations are stored
C18_TwoDurationsStored ==
    /\ Len(exercises) = 2
    /\ exercises[1].Duration # exercises[2].Duration
    /\ exercises[1].StartTime # exercises[2].StartTime

=============================================================================
